---- MODULE Spec2Model ----
(***************************************************************************)
(* EGL context management of glutin: attribute negotiation and native      *)
(* creation (Display::create_context), the NotCurrentContext /             *)
(* PossiblyCurrentContext typestate wrappers over one ContextInner record, *)
(* and the record's destructor.  The native EGL layer is modelled by the   *)
(* per-thread current-context slot and bound drawables, a count of         *)
(* DestroyContext calls per handle and the log of native calls an          *)
(* operation made (BindAPI's effect on the native layer is read back by    *)
(* none of this code and is kept in the log only).  The wayland platform   *)
(* Context's resize is modelled with the variant of the enum and the size  *)
(* its native WlEglSurface was last given.                                 *)
(***************************************************************************)
EXTENDS Integers, Sequences, FiniteSets, TLC

(* ------------------------------ bounds --------------------------------- *)
\* Number of native contexts CreateContext may hand out in one behaviour.
MaxContexts == 2
Handles == 1..MaxContexts
\* The threads that hold wrappers, each with its native current-context slot.
Threads == {1, 2}
\* The drawable surfaces available as bind targets (raw handles, never
\* NO_SURFACE).
Surfaces == {1, 2}

(* ------------------------- EGL constants ------------------------------- *)
\* Values of the glutin_egl_sys::egl constants (Khronos egl.h / eglext.h).
NONE == 12344
TRUE_ == 1
OPENGL_ES_API == 12448
OPENGL_API == 12450
CONTEXT_MAJOR_VERSION == 12440
CONTEXT_MINOR_VERSION == 12539
CONTEXT_OPENGL_PROFILE_MASK == 12541
CONTEXT_OPENGL_CORE_PROFILE_BIT == 1
CONTEXT_OPENGL_COMPATIBILITY_PROFILE_BIT == 2
CONTEXT_OPENGL_DEBUG == 12720
CONTEXT_OPENGL_ROBUST_ACCESS == 12722
CONTEXT_OPENGL_NO_ERROR_KHR == 12723
CONTEXT_OPENGL_RESET_NOTIFICATION_STRATEGY == 12733
NO_RESET_NOTIFICATION == 12734
LOSE_CONTEXT_ON_RESET == 12735
CONTEXT_FLAGS_KHR == 12540
\* The null handles egl::NO_CONTEXT and egl::NO_SURFACE.
NO_CONTEXT == 0
NO_SURFACE == 0

(* --------------------------- the state --------------------------------- *)
VARIABLES
    version,      \* display.inner.version: <<major, minor>>, fixed at construction
    extensions,   \* display.inner.client_extensions: set of extension names
    wrapper,      \* per handle: the wrappers over its ContextInner, each a type and the thread holding it
    created,      \* number of handles CreateContext has returned so far
    destroyed,    \* per handle: number of DestroyContext calls made on it
    current,      \* native per-thread current-context slot (eglGetCurrentContext)
    drawS,        \* native per-thread bound draw surface
    readS,        \* native per-thread bound read surface
    lastNative,   \* per thread: the last bind/unbind a wrapper call completed successfully on it
    calls,        \* the native calls made by the last operation, in order
    attrs,        \* the attribute array handed to CreateContext by the last operation
    request,      \* the ContextAttributes the last operation was given (create_context)
    result,       \* what the last operation returned to its caller
    variant,      \* platform::linux::wayland::Context: which variant of the enum it is
    surface,      \* the native WlEglSurface of the Windowed variant: the size it was last given
    lastResize    \* the arguments of the last Context::resize call and how the call ended

vars == <<version, extensions, wrapper, created, destroyed, current, drawS, readS,
          lastNative, calls, attrs, request, result, variant, surface, lastResize>>

display == <<version, extensions>>
native == <<current, drawS, readS>>
wayland == <<variant, surface, lastResize>>

(* ------------------------ results and errors --------------------------- *)
\* crate::error::ErrorKind as the design names it: a request the runtime cannot
\* satisfy, or a native call that returned its failure sentinel.
NoErr == [kind |-> "none", msg |-> ""]
NotSupported(msg) == [kind |-> "NotSupported", msg |-> msg]

\* super::check_error(): the error-code resolver, called right after a native
\* call returned its failure sentinel; it maps the native last-error code to
\* one of the error kinds.  The set of errors it can report there (after a
\* failed call the native last-error code is an error code).
check_error == { [kind |-> k, msg |-> "egl"] : k \in {"NotSupported", "NativeFailure"} }

\* Version::new(major, minor) values are compared field by field, major first.
VersionGT(a, b) == a[1] > b[1] \/ (a[1] = b[1] /\ a[2] > b[2])
VersionGE(a, b) == a = b \/ VersionGT(a, b)

(* --------------------- Display::create_context ------------------------- *)
\* Mutant: the OpenGL threshold compared with >= instead of >.
Mut_supports_opengl_ge(ver) == VersionGE(ver, <<1, 3>>)

\* let supports_opengl = self.inner.version > Version::new(1, 3);
supports_opengl(ver) == VersionGT(ver, <<1, 3>>)

\* The match on context_attributes.api: the native API and the requested
\* version, or the "Api isn't supported" error.
SelectApi(ver, req) ==
    IF req.api = "OpenGl" /\ supports_opengl(ver)
    THEN [ok |-> TRUE, api |-> OPENGL_API, version |-> req.version]
    ELSE IF req.api = "Gles"
    THEN [ok |-> TRUE, api |-> OPENGL_ES_API, version |-> req.version]
    ELSE [ok |-> FALSE, api |-> 0, version |-> <<>>]

is_one_five(ver) == VersionGE(ver, <<1, 5>>)

\* Mutant: the attribute block entered on every display.
Mut_HasCreateContext_always(ver, exts) == TRUE

\* The condition guarding the whole attribute block.
HasCreateContext(ver, exts) == is_one_five(ver) \/ "EGL_KHR_create_context" \in exts

has_robustsess(ver, exts) ==
    is_one_five(ver) \/ "EGL_EXT_create_context_robustness" \in exts

has_no_error(exts) == "EGL_KHR_create_context_no_error" \in exts

\* if api == egl::OPENGL_API { push PROFILE_MASK, profile }
ProfileAttrs(api, profile) ==
    IF api = OPENGL_API
    THEN <<CONTEXT_OPENGL_PROFILE_MASK,
           IF profile = "Compatibility"
           THEN CONTEXT_OPENGL_COMPATIBILITY_PROFILE_BIT
           ELSE CONTEXT_OPENGL_CORE_PROFILE_BIT>>
    ELSE <<>>

\* if let Some(version) = version { push MAJOR, major, MINOR, minor }
VersionAttrs(v) ==
    IF v # <<>>
    THEN <<CONTEXT_MAJOR_VERSION, v[1], CONTEXT_MINOR_VERSION, v[2]>>
    ELSE <<>>

\* Mutant: the no-error arm without its has_no_error guard.
Mut_RobustnessAttrs_unguarded(robustness, robust, noerr) ==
    CASE robustness = "NotRobust" ->
            [ok |-> TRUE, attrs |-> <<>>, flags |-> 0]
      [] robustness = "NoError" ->
            [ok |-> TRUE, attrs |-> <<CONTEXT_OPENGL_NO_ERROR_KHR, TRUE_>>, flags |-> 0]
      [] robustness = "RobustLoseContextOnReset" /\ robust ->
            [ok |-> TRUE,
             attrs |-> <<CONTEXT_OPENGL_RESET_NOTIFICATION_STRATEGY, LOSE_CONTEXT_ON_RESET>>,
             flags |-> CONTEXT_OPENGL_ROBUST_ACCESS]
      [] robustness = "RobustNoResetNotification" /\ robust ->
            [ok |-> TRUE,
             attrs |-> <<CONTEXT_OPENGL_RESET_NOTIFICATION_STRATEGY, NO_RESET_NOTIFICATION>>,
             flags |-> CONTEXT_OPENGL_ROBUST_ACCESS]
      [] OTHER ->
            [ok |-> FALSE, attrs |-> <<>>, flags |-> 0]

\* Mutant: the two reset notification strategies exchanged.
Mut_RobustnessAttrs_swapped(robustness, robust, noerr) ==
    CASE robustness = "NotRobust" ->
            [ok |-> TRUE, attrs |-> <<>>, flags |-> 0]
      [] robustness = "NoError" /\ noerr ->
            [ok |-> TRUE, attrs |-> <<CONTEXT_OPENGL_NO_ERROR_KHR, TRUE_>>, flags |-> 0]
      [] robustness = "RobustLoseContextOnReset" /\ robust ->
            [ok |-> TRUE,
             attrs |-> <<CONTEXT_OPENGL_RESET_NOTIFICATION_STRATEGY, NO_RESET_NOTIFICATION>>,
             flags |-> CONTEXT_OPENGL_ROBUST_ACCESS]
      [] robustness = "RobustNoResetNotification" /\ robust ->
            [ok |-> TRUE,
             attrs |-> <<CONTEXT_OPENGL_RESET_NOTIFICATION_STRATEGY, LOSE_CONTEXT_ON_RESET>>,
             flags |-> CONTEXT_OPENGL_ROBUST_ACCESS]
      [] OTHER ->
            [ok |-> FALSE, attrs |-> <<>>, flags |-> 0]

\* match context_attributes.robustness: the attributes pushed and the flag
\* bits accumulated (flags starts at 0 and is or-ed with one bit at most), or
\* the "robustness is not supported" error.
RobustnessAttrs(robustness, robust, noerr) ==
    CASE robustness = "NotRobust" ->
            [ok |-> TRUE, attrs |-> <<>>, flags |-> 0]
      [] robustness = "NoError" /\ noerr ->
            [ok |-> TRUE, attrs |-> <<CONTEXT_OPENGL_NO_ERROR_KHR, TRUE_>>, flags |-> 0]
      [] robustness = "RobustLoseContextOnReset" /\ robust ->
            [ok |-> TRUE,
             attrs |-> <<CONTEXT_OPENGL_RESET_NOTIFICATION_STRATEGY, LOSE_CONTEXT_ON_RESET>>,
             flags |-> CONTEXT_OPENGL_ROBUST_ACCESS]
      [] robustness = "RobustNoResetNotification" /\ robust ->
            [ok |-> TRUE,
             attrs |-> <<CONTEXT_OPENGL_RESET_NOTIFICATION_STRATEGY, NO_RESET_NOTIFICATION>>,
             flags |-> CONTEXT_OPENGL_ROBUST_ACCESS]
      [] OTHER ->
            [ok |-> FALSE, attrs |-> <<>>, flags |-> 0]

\* Mutant: the debug attribute pushed whenever debug is requested and no-error
\* is not advertised, without the version test.
Mut_DebugAttrs_any_version(debug, ver, exts) ==
    IF debug /\ ~("EGL_KHR_create_context_no_error" \in exts)
    THEN <<CONTEXT_OPENGL_DEBUG, TRUE_>>
    ELSE <<>>

\* if context_attributes.debug && is_one_five && !has_no_error { push DEBUG, TRUE }
DebugAttrs(debug, ver, exts) ==
    IF debug /\ is_one_five(ver) /\ ~has_no_error(exts)
    THEN <<CONTEXT_OPENGL_DEBUG, TRUE_>>
    ELSE <<>>

\* Mutant: a second flags attribute pushed next to the reset strategy's.
Mut_FlagsAttrs_twice(flags) ==
    IF flags # 0
    THEN <<CONTEXT_FLAGS_KHR, flags, CONTEXT_FLAGS_KHR, flags>>
    ELSE <<>>

\* if flags != 0 { push FLAGS_KHR, flags }
FlagsAttrs(flags) == IF flags # 0 THEN <<CONTEXT_FLAGS_KHR, flags>> ELSE <<>>

\* attrs.push(egl::NONE)
Terminate(a) == Append(a, NONE)

\* The attribute array as the function builds it, up to and including the
\* terminator, in push order; ok is FALSE when the robustness match returned
\* the error.
BuildAttrs(ver, exts, api, v, req) ==
    IF HasCreateContext(ver, exts)
    THEN LET rb == RobustnessAttrs(req.robustness, has_robustsess(ver, exts),
                                   has_no_error(exts))
         IN  [ok |-> rb.ok,
              attrs |-> Terminate(ProfileAttrs(api, req.profile) \o VersionAttrs(v)
                                  \o rb.attrs \o DebugAttrs(req.debug, ver, exts)
                                  \o FlagsAttrs(rb.flags))]
    ELSE [ok |-> TRUE, attrs |-> Terminate(<<>>)]

\* The match on context_attributes.shared_context: the native handle to share
\* with, NO_CONTEXT when absent, an error for a RawContext of another backend.
SharedContext(shared) ==
    CASE shared.backend = "None" -> [ok |-> TRUE, handle |-> NO_CONTEXT]
      [] shared.backend = "Egl" -> [ok |-> TRUE, handle |-> shared.handle]
      [] OTHER -> [ok |-> FALSE, handle |-> NO_CONTEXT]

\* A native call as the log records it.
Call(fn, arg, ok) == [fn |-> fn, arg |-> arg, ok |-> ok]

\* Mutant: the BindAPI failure is not returned and CreateContext is called
\* all the same.
Mut_NativeCreate_ignores_bind(api, bindOk, createOk, e, h) ==
    IF ~createOk
    THEN [calls |-> <<[fn |-> "BindAPI", arg |-> api, ok |-> bindOk],
                      [fn |-> "CreateContext", arg |-> NO_CONTEXT, ok |-> FALSE]>>,
          err |-> e, handle |-> NO_CONTEXT]
    ELSE [calls |-> <<[fn |-> "BindAPI", arg |-> api, ok |-> bindOk],
                      [fn |-> "CreateContext", arg |-> h, ok |-> TRUE]>>,
          err |-> NoErr, handle |-> h]

\* The unsafe block: BindAPI, then CreateContext, each checked against its
\* failure sentinel.  bindOk and createOk are what the native layer answers,
\* e what the resolver reports on a failure, h the handle CreateContext returns.
NativeCreate(api, bindOk, createOk, e, h) ==
    IF ~bindOk
    THEN [calls |-> <<Call("BindAPI", api, FALSE)>>, err |-> e, handle |-> NO_CONTEXT]
    ELSE IF ~createOk
    THEN [calls |-> <<Call("BindAPI", api, TRUE), Call("CreateContext", NO_CONTEXT, FALSE)>>,
          err |-> e, handle |-> NO_CONTEXT]
    ELSE [calls |-> <<Call("BindAPI", api, TRUE), Call("CreateContext", h, TRUE)>>,
          err |-> NoErr, handle |-> h]

\* Display::create_context as a function of the display, the request and the
\* native layer's answers: the native calls made, the attribute array and
\* shared handle passed to CreateContext (empty / NO_CONTEXT when it is not
\* reached), the error returned and the handle wrapped on success.
CreateOutcome(ver, exts, req, bindOk, createOk, e, h) ==
    LET sel == SelectApi(ver, req)
        built == BuildAttrs(ver, exts, sel.api, sel.version, req)
        sh == SharedContext(req.shared)
        early(err) == [calls |-> <<>>, attrs |-> <<>>, shared |-> NO_CONTEXT,
                       err |-> err, handle |-> NO_CONTEXT]
    IN  IF ~sel.ok
        THEN early(NotSupported("the requested context Api isn't supported."))
        ELSE IF ~built.ok
        THEN early(NotSupported("context robustness is not supported"))
        ELSE IF ~sh.ok
        THEN early(NotSupported("passed incompatible raw context"))
        ELSE LET nat == NativeCreate(sel.api, bindOk, createOk, e, h)
             IN  [calls |-> nat.calls,
                  attrs |-> IF Len(nat.calls) = 2 THEN built.attrs ELSE <<>>,
                  shared |-> IF Len(nat.calls) = 2 THEN sh.handle ELSE NO_CONTEXT,
                  err |-> nat.err, handle |-> nat.handle]

(* ------------------------- inputs drawn -------------------------------- *)
\* Runtime versions a display may report, either side of both thresholds.
Versions == {<<1, 2>>, <<1, 3>>, <<1, 4>>, <<1, 5>>, <<2, 0>>}
\* The client extensions create_context looks for.
Extensions == {"EGL_KHR_create_context", "EGL_EXT_create_context_robustness",
               "EGL_KHR_create_context_no_error"}
\* ContextAttributes: api with optional version (<<>> is None), optional
\* profile, robustness, debug, optional shared RawContext.
SharedChoices == {[backend |-> "None", handle |-> NO_CONTEXT],
                  [backend |-> "Egl", handle |-> 1],
                  [backend |-> "Glx", handle |-> 1]}
Requests ==
    [api : {"OpenGl", "Gles"}, version : {<<>>, <<4, 1>>},
     profile : {"None", "Core", "Compatibility"},
     robustness : {"NotRobust", "NoError", "RobustLoseContextOnReset",
                   "RobustNoResetNotification"},
     debug : BOOLEAN, shared : SharedChoices]

\* No request: the operation was not create_context.
NoRequest ==
    [api |-> "none", version |-> <<>>, profile |-> "None", robustness |-> "NotRobust",
     debug |-> FALSE, shared |-> [backend |-> "None", handle |-> NO_CONTEXT]]

\* The display and the requests of the design's example scenarios: runtime
\* 1.4 with the create-context and robustness extensions; OpenGL 4.1 core,
\* lose-context-on-reset, debug; the same with no-error; a default OpenGL ES
\* request; an OpenGL ES request sharing with a context of another backend.
ExampleVersion == <<1, 4>>
ExampleExtensions == {"EGL_KHR_create_context", "EGL_EXT_create_context_robustness"}
ExampleRequest ==
    [api |-> "OpenGl", version |-> <<4, 1>>, profile |-> "Core",
     robustness |-> "RobustLoseContextOnReset", debug |-> TRUE,
     shared |-> [backend |-> "None", handle |-> NO_CONTEXT]]
GlesRequest ==
    [api |-> "Gles", version |-> <<>>, profile |-> "None",
     robustness |-> "NotRobust", debug |-> FALSE,
     shared |-> [backend |-> "None", handle |-> NO_CONTEXT]]
ExampleRequests ==
    {ExampleRequest, [ExampleRequest EXCEPT !.robustness = "NoError"], GlesRequest,
     [GlesRequest EXCEPT !.shared = [backend |-> "Glx", handle |-> 1]]}

\* What the native layer answers to BindAPI and CreateContext, and what the
\* resolver reports when one of them failed: <<bindOk, createOk, e>>.
NativeAnswers ==
    {<<TRUE, TRUE, NoErr>>}
      \cup {<<FALSE, TRUE, e>> : e \in check_error}
      \cup {<<TRUE, FALSE, e>> : e \in check_error}

(* ----------------------- the wrappers' state --------------------------- *)
\* wrapper[h] is the set of wrapper values that exist over the record of
\* handle h, each with its type and the thread that holds it.
NoWrapper == {}
Wrapper(st, t) == [state |-> st, owner |-> t]
Held(h) == wrapper[h] # NoWrapper
HeldAs(h, st, t) == Wrapper(st, t) \in wrapper[h]
\* The record of h was created and no wrapper holds it any more.
Discarded(h) == h <= created /\ wrapper[h] = NoWrapper

\* Mutant: a transition that builds the destination wrapper around the record
\* and leaves the source wrapper in existence.
Mut_Into_keeps_source(h, src, dst) == [wrapper EXCEPT ![h] = @ \cup {dst}]

\* Mutant: a wrapper that survives the failure of the method that took it.
Mut_Consumed_survives(h, src) == wrapper

\* A method that takes self by value and returns the other wrapper type:
\* src is moved out of and dst is built around the same record.
Into(h, src, dst) == [wrapper EXCEPT ![h] = (@ \ {src}) \cup {dst}]

\* self taken by value and not given back: the wrapper is gone.
Consumed(h, src) == [wrapper EXCEPT ![h] = @ \ {src}]

\* What an operation hands back: the error (NoErr on success), the wrapper
\* type returned over ctx ("none" when no wrapper is returned), and the
\* boolean answer of a query.
Ret(op, t, h, err, returned, value) ==
    [op |-> op, thread |-> t, ctx |-> h, err |-> err, returned |-> returned,
     value |-> value]

InitState ==
    /\ wrapper = [h \in Handles |-> NoWrapper]
    /\ created = 0
    /\ destroyed = [h \in Handles |-> 0]
    /\ current = [t \in Threads |-> NO_CONTEXT]
    /\ drawS = [t \in Threads |-> NO_SURFACE]
    /\ readS = [t \in Threads |-> NO_SURFACE]
    /\ lastNative = [t \in Threads |-> [kind |-> "none", ctx |-> NO_CONTEXT]]
    /\ calls = <<>>
    /\ attrs = <<>>
    /\ request = NoRequest
    /\ result = Ret("none", 0, NO_CONTEXT, NoErr, "none", FALSE)

\* Thread t calls display.create_context(config, req).
create_context(t, req) ==
    /\ created < MaxContexts
    /\ \E ans \in NativeAnswers :
         LET out == CreateOutcome(version, extensions, req, ans[1], ans[2], ans[3],
                                  created + 1)
             h == out.handle
         IN  /\ calls' = out.calls
             /\ attrs' = out.attrs
             /\ request' = req
             /\ IF out.err = NoErr
                THEN /\ wrapper' = [wrapper EXCEPT ![h] = {Wrapper("NotCurrent", t)}]
                     /\ created' = h
                     /\ result' = Ret("create_context", t, h, NoErr, "NotCurrent", FALSE)
                ELSE /\ UNCHANGED <<wrapper, created>>
                     /\ result' = Ret("create_context", t, NO_CONTEXT, out.err, "none", FALSE)
    /\ UNCHANGED <<wayland, display, destroyed, native, lastNative>>

(* ------------------------- ContextInner -------------------------------- *)
\* egl.MakeCurrent(display, draw, read, ctx) on thread t: on success the
\* thread's slot and drawables are replaced, on failure nothing changes.
NativeMakeCurrent(t, d, r, c, ok) ==
    IF ok
    THEN /\ current' = [current EXCEPT ![t] = c]
         /\ drawS' = [drawS EXCEPT ![t] = d]
         /\ readS' = [readS EXCEPT ![t] = r]
    ELSE UNCHANGED native

\* Mutant: the bind's failure is swallowed and Ok(()) returned.
Mut_bind_swallows_failure(ok, e) == NoErr

\* ContextInner::make_current_draw_read's Result: check_error() when
\* MakeCurrent returned egl::FALSE, Ok(()) otherwise.
ContextInner_make_current_draw_read(ok, e) == IF ~ok THEN e ELSE NoErr

\* Mutant: the unbind's failure is swallowed and Ok(()) returned.
Mut_unbind_swallows_failure(ok, e) == NoErr

\* ContextInner::make_not_current's Result, likewise.
ContextInner_make_not_current(ok, e) == IF ~ok THEN e ELSE NoErr

\* The context egl.MakeCurrent is given by ContextInner::make_not_current.
UnbindContext == NO_CONTEXT

\* Mutant: a destructor that forgets the native call.
Mut_drop_leaks(h) == UNCHANGED destroyed

\* Drop for ContextInner: DestroyContext(display, raw).
ContextInner_drop(h) == destroyed' = [destroyed EXCEPT ![h] = @ + 1]

\* What the native layer answers to MakeCurrent, and what the resolver reports
\* when it failed: <<ok, e>>.
MakeCurrentAnswers == {<<TRUE, NoErr>>} \cup {<<FALSE, e>> : e \in check_error}

Bound(h) == [kind |-> "bind", ctx |-> h]
Unbound == [kind |-> "unbind", ctx |-> NO_CONTEXT]

(* ----------------------- NotCurrentContext ----------------------------- *)
\* NotCurrentContext::treat_as_current(self): the record moves into a
\* PossiblyCurrentContext; no native call.
treat_as_current(t, h) ==
    /\ HeldAs(h, "NotCurrent", t)
    /\ wrapper' = Into(h, Wrapper("NotCurrent", t), Wrapper("PossiblyCurrent", t))
    /\ calls' = <<>>
    /\ attrs' = <<>>
    /\ request' = NoRequest
    /\ result' = Ret("treat_as_current", t, h, NoErr, "PossiblyCurrent", FALSE)
    /\ UNCHANGED <<wayland, display, created, destroyed, native, lastNative>>

\* The body shared by NotCurrentContext::make_current and
\* make_current_draw_read: self.inner.make_current_draw_read(draw, read)?
\* returns the error and drops self (and with it the record) on failure;
\* otherwise the record moves into a PossiblyCurrentContext.
NotCurrentBind(op, t, h, d, r) ==
    /\ HeldAs(h, "NotCurrent", t)
    /\ \E ans \in MakeCurrentAnswers :
         LET ok == ans[1]
             e == ans[2]
             err == ContextInner_make_current_draw_read(ok, e)
         IN  /\ NativeMakeCurrent(t, d, r, h, ok)
             /\ IF err = NoErr
                THEN /\ wrapper' = Into(h, Wrapper("NotCurrent", t), Wrapper("PossiblyCurrent", t))
                     /\ UNCHANGED destroyed
                     /\ calls' = <<Call("MakeCurrent", h, ok)>>
                     /\ lastNative' = [lastNative EXCEPT ![t] = Bound(h)]
                     /\ result' = Ret(op, t, h, NoErr, "PossiblyCurrent", FALSE)
                ELSE /\ wrapper' = Consumed(h, Wrapper("NotCurrent", t))
                     /\ ContextInner_drop(h)
                     /\ calls' = <<Call("MakeCurrent", h, ok), Call("DestroyContext", h, TRUE)>>
                     /\ UNCHANGED lastNative
                     /\ result' = Ret(op, t, h, err, "none", FALSE)
    /\ attrs' = <<>>
    /\ request' = NoRequest
    /\ UNCHANGED <<wayland, display, created>>

NotCurrentContext_make_current(t, h, s) ==
    NotCurrentBind("NotCurrentContext::make_current", t, h, s, s)

NotCurrentContext_make_current_draw_read(t, h, d, r) ==
    NotCurrentBind("NotCurrentContext::make_current_draw_read", t, h, d, r)

\* Mutant: every wrapper type is Send, PossiblyCurrentContext included.
Mut_send_any_wrapper(h, t2) ==
    /\ \E w \in wrapper[h] :
          /\ w.owner # t2
          /\ wrapper' = [wrapper EXCEPT ![h] = (@ \ {w}) \cup {Wrapper(w.state, t2)}]
    /\ UNCHANGED <<wayland, display, created, destroyed, native, lastNative,
                   calls, attrs, request, result>>

\* NotCurrentContext is Send: the wrapper is moved to thread t2.
send(h, t2) ==
    /\ \E t1 \in Threads \ {t2} :
          /\ HeldAs(h, "NotCurrent", t1)
          /\ wrapper' = [wrapper EXCEPT ![h] = (@ \ {Wrapper("NotCurrent", t1)})
                                                  \cup {Wrapper("NotCurrent", t2)}]
    /\ UNCHANGED <<wayland, display, created, destroyed, native, lastNative,
                   calls, attrs, request, result>>

(* --------------------- PossiblyCurrentContext -------------------------- *)
\* Mutant: make_not_current that rewraps the record without unbinding it.
Mut_make_not_current_no_unbind(t, h) ==
    /\ HeldAs(h, "PossiblyCurrent", t)
    /\ wrapper' = Into(h, Wrapper("PossiblyCurrent", t), Wrapper("NotCurrent", t))
    /\ calls' = <<>>
    /\ attrs' = <<>>
    /\ request' = NoRequest
    /\ result' = Ret("make_not_current", t, h, NoErr, "NotCurrent", FALSE)
    /\ UNCHANGED <<wayland, display, created, destroyed, native, lastNative>>

\* Mutant: make_not_current that releases the thread's slot only when its own
\* context occupies it.
Mut_make_not_current_only_own(t, h) ==
    /\ HeldAs(h, "PossiblyCurrent", t)
    /\ \E ans \in MakeCurrentAnswers :
         LET ok == ans[1]
             err == ContextInner_make_not_current(ok, ans[2])
         IN  /\ IF ok /\ current[t] = h
                THEN NativeMakeCurrent(t, NO_SURFACE, NO_SURFACE, UnbindContext, TRUE)
                ELSE UNCHANGED native
             /\ IF err = NoErr
                THEN /\ wrapper' = Into(h, Wrapper("PossiblyCurrent", t), Wrapper("NotCurrent", t))
                     /\ UNCHANGED destroyed
                     /\ calls' = <<Call("MakeCurrent", UnbindContext, ok)>>
                     /\ lastNative' = [lastNative EXCEPT ![t] = Unbound]
                     /\ result' = Ret("make_not_current", t, h, NoErr, "NotCurrent", FALSE)
                ELSE /\ wrapper' = Consumed(h, Wrapper("PossiblyCurrent", t))
                     /\ ContextInner_drop(h)
                     /\ calls' = <<Call("MakeCurrent", UnbindContext, ok),
                                   Call("DestroyContext", h, TRUE)>>
                     /\ UNCHANGED lastNative
                     /\ result' = Ret("make_not_current", t, h, err, "none", FALSE)
    /\ attrs' = <<>>
    /\ request' = NoRequest
    /\ UNCHANGED <<wayland, display, created>>

\* PossiblyCurrentContext::make_not_current(self): self.inner.make_not_current()?
\* returns the error and drops self on failure; otherwise the record moves
\* into a NotCurrentContext.
make_not_current(t, h) ==
    /\ HeldAs(h, "PossiblyCurrent", t)
    /\ \E ans \in MakeCurrentAnswers :
         LET ok == ans[1]
             e == ans[2]
             err == ContextInner_make_not_current(ok, e)
         IN  /\ NativeMakeCurrent(t, NO_SURFACE, NO_SURFACE, UnbindContext, ok)
             /\ IF err = NoErr
                THEN /\ wrapper' = Into(h, Wrapper("PossiblyCurrent", t), Wrapper("NotCurrent", t))
                     /\ UNCHANGED destroyed
                     /\ calls' = <<Call("MakeCurrent", UnbindContext, ok)>>
                     /\ lastNative' = [lastNative EXCEPT ![t] = Unbound]
                     /\ result' = Ret("make_not_current", t, h, NoErr, "NotCurrent", FALSE)
                ELSE /\ wrapper' = Consumed(h, Wrapper("PossiblyCurrent", t))
                     /\ ContextInner_drop(h)
                     /\ calls' = <<Call("MakeCurrent", UnbindContext, ok),
                                   Call("DestroyContext", h, TRUE)>>
                     /\ UNCHANGED lastNative
                     /\ result' = Ret("make_not_current", t, h, err, "none", FALSE)
    /\ attrs' = <<>>
    /\ request' = NoRequest
    /\ UNCHANGED <<wayland, display, created>>

\* Mutant: is_current answering whether any context is current.
Mut_IsCurrentAny(t, h) == current[t] # NO_CONTEXT

\* The comparison PossiblyCurrentContext::is_current makes.
IsCurrentAnswer(t, h) == current[t] = h

\* PossiblyCurrentContext::is_current(&self).
is_current(t, h) ==
    /\ HeldAs(h, "PossiblyCurrent", t)
    /\ calls' = <<Call("GetCurrentContext", current[t], TRUE)>>
    /\ attrs' = <<>>
    /\ request' = NoRequest
    /\ result' = Ret("is_current", t, h, NoErr, "none", IsCurrentAnswer(t, h))
    /\ UNCHANGED <<wayland, display, wrapper, created, destroyed, native, lastNative>>

\* Mutant: a rebind that, like the NotCurrentContext bind, drops the record
\* when the native bind fails.
Mut_PossiblyCurrentBind_drops(op, t, h, d, r) ==
    /\ HeldAs(h, "PossiblyCurrent", t)
    /\ \E ans \in MakeCurrentAnswers :
         LET ok == ans[1]
             err == ContextInner_make_current_draw_read(ok, ans[2])
         IN  /\ IF ok
                THEN /\ current' = [current EXCEPT ![t] = h]
                     /\ drawS' = [drawS EXCEPT ![t] = d]
                     /\ readS' = [readS EXCEPT ![t] = r]
                     /\ UNCHANGED <<wrapper, destroyed>>
                     /\ calls' = <<Call("MakeCurrent", h, TRUE)>>
                     /\ lastNative' = [lastNative EXCEPT ![t] = Bound(h)]
                ELSE /\ UNCHANGED <<current, drawS, readS, lastNative>>
                     /\ wrapper' = Consumed(h, Wrapper("PossiblyCurrent", t))
                     /\ ContextInner_drop(h)
                     /\ calls' = <<Call("MakeCurrent", h, FALSE),
                                   Call("DestroyContext", h, TRUE)>>
             /\ result' = Ret(op, t, h, err, "none", FALSE)
    /\ attrs' = <<>>
    /\ request' = NoRequest
    /\ UNCHANGED <<wayland, display, created>>

\* The body shared by PossiblyCurrentContext::make_current and
\* make_current_draw_read (&self): the Result of the record's bind, the
\* wrapper kept either way.
PossiblyCurrentBind(op, t, h, d, r) ==
    /\ HeldAs(h, "PossiblyCurrent", t)
    /\ \E ans \in MakeCurrentAnswers :
         LET ok == ans[1]
             e == ans[2]
             err == ContextInner_make_current_draw_read(ok, e)
         IN  /\ NativeMakeCurrent(t, d, r, h, ok)
             /\ calls' = <<Call("MakeCurrent", h, ok)>>
             /\ lastNative' = IF err = NoErr
                              THEN [lastNative EXCEPT ![t] = Bound(h)]
                              ELSE lastNative
             /\ result' = Ret(op, t, h, err, "none", FALSE)
    /\ attrs' = <<>>
    /\ request' = NoRequest
    /\ UNCHANGED <<wayland, display, wrapper, created, destroyed>>

PossiblyCurrentContext_make_current(t, h, s) ==
    PossiblyCurrentBind("PossiblyCurrentContext::make_current", t, h, s, s)

PossiblyCurrentContext_make_current_draw_read(t, h, d, r) ==
    PossiblyCurrentBind("PossiblyCurrentContext::make_current_draw_read", t, h, d, r)

\* Mutant: a destructor that releases the context from its thread, when it is
\* current there, before destroying it.
Mut_drop_unbinds(t, h) ==
    /\ \E w \in wrapper[h] :
          /\ w.owner = t
          /\ wrapper' = Consumed(h, w)
    /\ ContextInner_drop(h)
    /\ IF current[t] = h
       THEN /\ NativeMakeCurrent(t, NO_SURFACE, NO_SURFACE, UnbindContext, TRUE)
            /\ calls' = <<Call("MakeCurrent", UnbindContext, TRUE),
                          Call("DestroyContext", h, TRUE)>>
       ELSE /\ UNCHANGED native
            /\ calls' = <<Call("DestroyContext", h, TRUE)>>
    /\ attrs' = <<>>
    /\ request' = NoRequest
    /\ result' = Ret("drop", t, h, NoErr, "none", FALSE)
    /\ UNCHANGED <<wayland, display, created, lastNative>>

\* A wrapper of either type goes out of scope on its thread: the record is
\* dropped, which calls DestroyContext and nothing else.
drop(t, h) ==
    /\ \E w \in wrapper[h] :
          /\ w.owner = t
          /\ wrapper' = Consumed(h, w)
    /\ ContextInner_drop(h)
    /\ calls' = <<Call("DestroyContext", h, TRUE)>>
    /\ attrs' = <<>>
    /\ request' = NoRequest
    /\ result' = Ret("drop", t, h, NoErr, "none", FALSE)
    /\ UNCHANGED <<wayland, display, created, native, lastNative>>

(* -------------- platform/linux/wayland.rs: Context::resize ------------- *)
\* The largest i32.
I32_MAX == 2147483647

\* A u32 is kept as its top bit hi and its low 31 bits lo (the number
\* hi * 2^31 + lo), so that every value of the type, and every i32 it is cast
\* to, is written with numbers TLC's 32-bit integers can hold.
U32(hi, lo) == [hi |-> hi, lo |-> lo]

\* `x as i32` on a u32: the same 32 bits read as two's complement, which is
\* x itself below 2^31 and x - 2^32 from 2^31 on.
as_i32(x) == IF x.hi = 0 THEN x.lo ELSE (x.lo - I32_MAX) - 1

\* The widths and heights a caller passes: small ones, and the two ends of
\* each half of the u32 range.
Sizes == {U32(0, 0), U32(0, 1), U32(0, 800), U32(0, I32_MAX),
          U32(1, 0), U32(1, I32_MAX)}

Variants == {"Windowed", "PBuffer", "Surfaceless"}

NoSurface == [present |-> FALSE, width |-> 0, height |-> 0, dx |-> 0, dy |-> 0]
NoResize == [width |-> U32(0, 0), height |-> U32(0, 0), outcome |-> "none"]

\* wegl::WlEglSurface::new_from_raw(surface, width, height) and
\* WlEglSurface::resize(width, height, dx, dy): the size the native drawable has
\* once the call returns.
WlEglSurface(width, height, dx, dy) ==
    [present |-> TRUE, width |-> width, height |-> height, dx |-> dx, dy |-> dy]

\* No wayland Context has been constructed.
NoWaylandContext ==
    /\ variant = "none"
    /\ surface = NoSurface
    /\ lastResize = NoResize

\* Context::new_raw_context(.., width, height, ..) builds the Windowed variant
\* around a WlEglSurface of that size; Context::new_headless builds the PBuffer
\* or the Surfaceless variant, which have no WlEglSurface.
NewWaylandContext ==
    /\ variant \in Variants
    /\ lastResize = NoResize
    /\ IF variant = "Windowed"
       THEN \E width \in Sizes, height \in Sizes :
               surface = WlEglSurface(as_i32(width), as_i32(height), 0, 0)
       ELSE surface = NoSurface

\* Context::resize(&self, width, height) called on thread t: the Windowed
\* variant calls surface.0.resize(width as i32, height as i32, 0, 0); the other
\* variants reach unreachable!() and the call panics.
resize(t, width, height) ==
    /\ variant \in Variants
    /\ IF variant = "Windowed"
       THEN /\ surface' = WlEglSurface(as_i32(width), as_i32(height), 0, 0)
            /\ calls' = <<Call("WlEglSurface::resize",
                               <<as_i32(width), as_i32(height), 0, 0>>, TRUE)>>
            /\ lastResize' = [width |-> width, height |-> height, outcome |-> "returned"]
       ELSE /\ UNCHANGED surface
            /\ calls' = <<>>
            /\ lastResize' = [width |-> width, height |-> height, outcome |-> "panicked"]
    /\ attrs' = <<>>
    /\ request' = NoRequest
    /\ result' = Ret("resize", t, NO_CONTEXT, NoErr, "none", FALSE)
    /\ UNCHANGED <<display, wrapper, created, destroyed, native, lastNative, variant>>

(* ------------------------ specifications ------------------------------- *)
\* The wrappers' life on the example display.
Init ==
    /\ version = ExampleVersion
    /\ extensions = ExampleExtensions
    /\ InitState
    /\ NoWaylandContext

Next ==
    \/ \E t \in Threads, req \in ExampleRequests : create_context(t, req)
    \/ \E t \in Threads, h \in Handles : treat_as_current(t, h)
    \/ \E t \in Threads, h \in Handles, s \in Surfaces :
          NotCurrentContext_make_current(t, h, s)
    \/ \E t \in Threads, h \in Handles, d \in Surfaces, r \in Surfaces :
          NotCurrentContext_make_current_draw_read(t, h, d, r)
    \/ \E h \in Handles, t \in Threads : send(h, t)
    \/ \E t \in Threads, h \in Handles : make_not_current(t, h)
    \/ \E t \in Threads, h \in Handles : is_current(t, h)
    \/ \E t \in Threads, h \in Handles, s \in Surfaces :
          PossiblyCurrentContext_make_current(t, h, s)
    \/ \E t \in Threads, h \in Handles, d \in Surfaces, r \in Surfaces :
          PossiblyCurrentContext_make_current_draw_read(t, h, d, r)
    \/ \E t \in Threads, h \in Handles : drop(t, h)

Spec == Init /\ [][Next]_vars

\* Context creation alone, as a function of the display and the request: any
\* display, and one call with any request and any native answers.
InitCreate ==
    /\ version \in Versions
    /\ extensions \in SUBSET Extensions
    /\ InitState
    /\ NoWaylandContext

NextCreate ==
    \E req \in Requests : result.op = "none" /\ create_context(1, req)

SpecCreate == InitCreate /\ [][NextCreate]_vars

\* Context::resize on a wayland Context of any variant and construction size.
InitResize ==
    /\ version = ExampleVersion
    /\ extensions = ExampleExtensions
    /\ InitState
    /\ NewWaylandContext

NextResize ==
    \E t \in Threads, width \in Sizes, height \in Sizes : resize(t, width, height)

SpecResize == InitResize /\ [][NextResize]_vars

(* ============================ the claims ================================ *)

\* C1: a native context whose record is held by a NotCurrentContext wrapper
\* is not the current context of any thread.
C1_NotCurrentNeverCurrent ==
    \A h \in Handles, t \in Threads :
        (\E o \in Threads : HeldAs(h, "NotCurrent", o)) => current[t] # h

\* A context was unbound into a NotCurrentContext on one thread while the
\* other thread has a context current.
C1_Witness ==
    /\ result.op = "make_not_current"
    /\ result.err = NoErr
    /\ HeldAs(result.ctx, "NotCurrent", result.thread)
    /\ \E t \in Threads : t # result.thread /\ current[t] \in Handles

\* C2: DestroyContext has been called zero times on a handle while a wrapper
\* holds its record (whatever transitions the wrapper went through), exactly
\* once when the wrapper has been discarded, and never on a handle that was
\* not created; a failed create_context makes no DestroyContext call.
C2_DestroyedExactlyOnce ==
    /\ \A h \in Handles :
        /\ Held(h) => destroyed[h] = 0
        /\ Discarded(h) => destroyed[h] = 1
        /\ h > created => destroyed[h] = 0
    /\ (result.op = "create_context" /\ result.err # NoErr) =>
          \A i \in 1..Len(calls) : calls[i].fn # "DestroyContext"

\* A wrapper is discarded on a thread whose last native transition was an
\* unbind, i.e. after a round trip.
C2_Witness ==
    /\ result.op = "drop"
    /\ lastNative[result.thread].kind = "unbind"
    /\ destroyed[result.ctx] = 1

\* C3: is_current answers true when the last successful bind or unbind on
\* the thread was a bind of that context, false when it was an unbind, and
\* always the comparison of the thread's current-context slot with the handle.
C3_IsCurrentFollowsBind ==
    result.op = "is_current" =>
        /\ lastNative[result.thread] = Bound(result.ctx) => result.value = TRUE
        /\ lastNative[result.thread].kind = "unbind" => result.value = FALSE
        /\ result.value = (current[result.thread] = result.ctx)

\* is_current is asked, through a PossiblyCurrentContext re-obtained without
\* a bind, on a thread that last unbound, and answers false.
C3_Witness ==
    /\ result.op = "is_current"
    /\ lastNative[result.thread].kind = "unbind"
    /\ result.value = FALSE

(* ---- creation: what the claims call things ---- *)
\* The last operation was create_context and reached the native creation call.
ReachedCreateContext ==
    /\ result.op = "create_context"
    /\ \E i \in 1..Len(calls) : calls[i].fn = "CreateContext"

\* The display's runtime version is at least 1.5.
AtLeastOneFive == version[1] > 1 \/ (version[1] = 1 /\ version[2] >= 5)

\* The requested robustness policy is one the display does not support.
PolicyUnsupported ==
    \/ /\ request.robustness = "NoError"
       /\ "EGL_KHR_create_context_no_error" \notin extensions
    \/ /\ request.robustness \in {"RobustLoseContextOnReset", "RobustNoResetNotification"}
       /\ ~AtLeastOneFive
       /\ "EGL_EXT_create_context_robustness" \notin extensions

\* Extended attribute negotiation is available on the display.
NegotiationAvailable == AtLeastOneFive \/ "EGL_KHR_create_context" \in extensions

\* The key/value pairs of an attribute array, its last element left out.
Pairs(a) == { <<a[2 * i - 1], a[2 * i]>> : i \in 1..((Len(a) - 1) \div 2) }
Keys(a) == { a[2 * i - 1] : i \in 1..((Len(a) - 1) \div 2) }

\* C4 as stated: on every display, a request for a robustness policy the
\* display does not support returns NotSupported and makes no native call.
C4_Original ==
    (result.op = "create_context" /\ PolicyUnsupported) =>
        (result.err.kind = "NotSupported" /\ calls = <<>>)

\* C4: on a display with extended attribute negotiation (version >= 1.5 or
\* EGL_KHR_create_context), a request for a robustness policy the display does
\* not support returns NotSupported and makes no native call.
C4_UnsupportedPolicyRejected ==
    (result.op = "create_context" /\ NegotiationAvailable /\ PolicyUnsupported) =>
        (result.err.kind = "NotSupported" /\ calls = <<>>)

\* An OpenGL ES request, which passes the API check, is rejected for its
\* robustness policy.
C4_Witness ==
    /\ result.op = "create_context"
    /\ NegotiationAvailable /\ PolicyUnsupported
    /\ request.api = "Gles"
    /\ result.err = NotSupported("context robustness is not supported")
    /\ calls = <<>>

\* C5: the attribute array passed to CreateContext is key/value pairs
\* followed by the terminator: the terminator is last and appears once, and
\* no key appears twice.
C5_AttrsWellFormed ==
    ReachedCreateContext =>
        /\ Len(attrs) % 2 = 1
        /\ attrs[Len(attrs)] = NONE
        /\ \A i \in 1..(Len(attrs) - 1) : attrs[i] # NONE
        /\ Cardinality(Keys(attrs)) = (Len(attrs) - 1) \div 2

\* The longest array: profile, version, reset strategy, debug and flags.
C5_Witness == ReachedCreateContext /\ Len(attrs) = 13

\* C6: on a runtime version at or below 1.3 an OpenGL request returns
\* NotSupported with no native call, whatever else is requested; an OpenGL ES
\* request is never rejected by the API check.
C6_OpenGlNeedsAboveOneThree ==
    result.op = "create_context" =>
        /\ (request.api = "OpenGl"
              /\ (version[1] < 1 \/ (version[1] = 1 /\ version[2] <= 3))) =>
                (result.err.kind = "NotSupported" /\ calls = <<>>)
        /\ request.api = "Gles" =>
                result.err # NotSupported("the requested context Api isn't supported.")

\* OpenGL is requested on a 1.3 display and refused.
C6_Witness ==
    /\ result.op = "create_context"
    /\ request.api = "OpenGl"
    /\ request.robustness = "NotRobust"
    /\ version = <<1, 3>>
    /\ result.err = NotSupported("the requested context Api isn't supported.")

\* The example scenario: the example display and request, and the native
\* creation call reached.
ExampleScenario ==
    /\ ReachedCreateContext
    /\ version = <<1, 4>>
    /\ extensions = {"EGL_KHR_create_context", "EGL_EXT_create_context_robustness"}
    /\ request.api = "OpenGl" /\ request.version = <<4, 1>>
    /\ request.profile = "Core"
    /\ request.robustness = "RobustLoseContextOnReset"
    /\ request.debug = TRUE

\* C7 as stated: in the example scenario the array holds profile-mask(core),
\* major=4, minor=1, reset strategy(lose context on reset), flags(robust
\* access), debug(true) and the terminator, 13 integers in total.
C7_Original ==
    ExampleScenario =>
        /\ Pairs(attrs) = {<<CONTEXT_OPENGL_PROFILE_MASK, CONTEXT_OPENGL_CORE_PROFILE_BIT>>,
                           <<CONTEXT_MAJOR_VERSION, 4>>, <<CONTEXT_MINOR_VERSION, 1>>,
                           <<CONTEXT_OPENGL_RESET_NOTIFICATION_STRATEGY, LOSE_CONTEXT_ON_RESET>>,
                           <<CONTEXT_FLAGS_KHR, CONTEXT_OPENGL_ROBUST_ACCESS>>,
                           <<CONTEXT_OPENGL_DEBUG, TRUE_>>}
        /\ attrs[Len(attrs)] = NONE
        /\ Len(attrs) = 13

\* C7: in the example scenario (runtime 1.4, below the version that permits
\* the debug attribute) the array holds profile-mask(core), major=4, minor=1,
\* reset strategy(lose context on reset), flags(robust access) and the
\* terminator, 11 integers in total, and no debug attribute.
C7_ExampleAttrs ==
    ExampleScenario =>
        /\ Pairs(attrs) = {<<CONTEXT_OPENGL_PROFILE_MASK, CONTEXT_OPENGL_CORE_PROFILE_BIT>>,
                           <<CONTEXT_MAJOR_VERSION, 4>>, <<CONTEXT_MINOR_VERSION, 1>>,
                           <<CONTEXT_OPENGL_RESET_NOTIFICATION_STRATEGY, LOSE_CONTEXT_ON_RESET>>,
                           <<CONTEXT_FLAGS_KHR, CONTEXT_OPENGL_ROBUST_ACCESS>>}
        /\ attrs[Len(attrs)] = NONE
        /\ Len(attrs) = 11

\* The example request was made on the example display and a context created.
C7_Witness == ExampleScenario /\ result.err = NoErr /\ result.returned = "NotCurrent"

\* The positions of a native function in the call log.
CallsOf(fn) == { i \in 1..Len(calls) : calls[i].fn = fn }

\* C8: in create_context a NotSupported found by the function itself
\* (API, robustness policy, shared context) is returned with no native call
\* made; BindAPI is called at most once and before CreateContext;
\* CreateContext is called at most once and only after BindAPI succeeded; a
\* failed call is the last one made.
C8_NativeCallOrder ==
    result.op = "create_context" =>
        /\ (result.err.kind = "NotSupported" /\ result.err \notin check_error) => calls = <<>>
        /\ Cardinality(CallsOf("BindAPI")) <= 1
        /\ Cardinality(CallsOf("CreateContext")) <= 1
        /\ \A i \in CallsOf("CreateContext") :
              i = 2 /\ calls[1].fn = "BindAPI" /\ calls[1].ok
        /\ \A i \in 1..Len(calls) : ~calls[i].ok => i = Len(calls)
        /\ \A i \in 1..Len(calls) : calls[i].fn \in {"BindAPI", "CreateContext"}

\* BindAPI succeeded and CreateContext returned NO_CONTEXT.
C8_Witness ==
    /\ result.op = "create_context"
    /\ Len(calls) = 2
    /\ calls[1].ok /\ ~calls[2].ok
    /\ result.err \in check_error

\* Some native call of the last operation returned its failure sentinel.
NativeCallFailed == \E i \in 1..Len(calls) : ~calls[i].ok

\* C9: when MakeCurrent fails during NotCurrentContext::make_current or
\* make_current_draw_read, the call returns an error, returns no wrapper, no
\* wrapper holds the record any more, and DestroyContext was called on the
\* handle exactly once, by that call.
C9_FailedBindDropsContext ==
    (result.op \in {"NotCurrentContext::make_current",
                    "NotCurrentContext::make_current_draw_read"}
       /\ NativeCallFailed) =>
        /\ result.err # NoErr
        /\ result.returned = "none"
        /\ ~Held(result.ctx)
        /\ destroyed[result.ctx] = 1
        /\ Cardinality(CallsOf("DestroyContext")) = 1
        /\ \A i \in CallsOf("DestroyContext") : calls[i].arg = result.ctx

\* A draw/read bind of a NotCurrentContext failed and its record was dropped.
C9_Witness ==
    /\ result.op = "NotCurrentContext::make_current_draw_read"
    /\ NativeCallFailed
    /\ Discarded(result.ctx)

RebindOps == {"PossiblyCurrentContext::make_current",
              "PossiblyCurrentContext::make_current_draw_read"}

\* C11: a make_current / make_current_draw_read on a PossiblyCurrentContext,
\* whether the native bind succeeds or fails, leaves the wrapper a
\* PossiblyCurrentContext on its thread, leaves the display, the handle and
\* every other wrapper's type as they were, and calls DestroyContext on
\* nothing; on failure the native state is unchanged, and on success only the
\* calling thread's slot and drawables change, the slot to this context.
C11_RebindKeepsWrapper ==
    [][ result'.op \in RebindOps =>
          LET h == result'.ctx
              t == result'.thread
          IN  /\ wrapper'[h] = wrapper[h]
              /\ wrapper'[h] = {Wrapper("PossiblyCurrent", t)}
              /\ \A h2 \in Handles :
                    {w.state : w \in wrapper'[h2]} = {w.state : w \in wrapper[h2]}
              /\ destroyed' = destroyed
              /\ created' = created
              /\ display' = display
              /\ \A i \in 1..Len(calls') : calls'[i].fn # "DestroyContext"
              /\ \A t2 \in Threads \ {t} :
                    /\ current'[t2] = current[t2]
                    /\ drawS'[t2] = drawS[t2]
                    /\ readS'[t2] = readS[t2]
              /\ result'.err # NoErr => native' = native
              /\ result'.err = NoErr => current'[t] = h
      ]_vars

\* A rebind failed on a thread where the context had been bound to two
\* different surfaces: it is still current there and still wrapped.
C11_Witness ==
    /\ result.op \in RebindOps
    /\ result.err # NoErr
    /\ current[result.thread] = result.ctx
    /\ drawS[result.thread] # readS[result.thread]
    /\ HeldAs(result.ctx, "PossiblyCurrent", result.thread)

\* C12: in every reachable state a live native context (created and not
\* destroyed) is held by exactly one wrapper, a NotCurrentContext or a
\* PossiblyCurrentContext, and a handle never created or already destroyed by
\* none; so no transition leaves, even for one state, the source wrapper
\* beside the destination or the record without a wrapper.
C12_OneWrapperPerResource ==
    \A h \in Handles :
        /\ (h <= created /\ destroyed[h] = 0) => Cardinality(wrapper[h]) = 1
        /\ (h > created \/ destroyed[h] > 0) => wrapper[h] = NoWrapper
        /\ \A w \in wrapper[h] : w.state \in {"NotCurrent", "PossiblyCurrent"}

\* A NotCurrentContext has just become a PossiblyCurrentContext, the only
\* wrapper of its record, while the other context has been discarded.
C12_Witness ==
    /\ result.op = "treat_as_current"
    /\ wrapper[result.ctx] = {Wrapper("PossiblyCurrent", result.thread)}
    /\ \E h \in Handles \ {result.ctx} : Discarded(h)

\* C13: whatever the interleaving of the threads, the wrappers over a record
\* are held by at most one thread, a context that is current on a thread and
\* wrapped in a PossiblyCurrentContext is wrapped on that thread, and no native
\* context is the current context of two threads at once.
C13_OneThreadAtATime ==
    /\ \A h \in Handles : Cardinality({w.owner : w \in wrapper[h]}) <= 1
    /\ \A h \in Handles, t \in Threads, o \in Threads :
          (current[t] = h /\ HeldAs(h, "PossiblyCurrent", o)) => o = t
    /\ \A t1 \in Threads, t2 \in Threads :
          (t1 # t2 /\ current[t1] # NO_CONTEXT) => current[t1] # current[t2]

\* A NotCurrentContext created on one thread has been transferred to the
\* other, while the creating thread has another context current.
C13_Witness ==
    /\ result.op = "create_context"
    /\ result.err = NoErr
    /\ \E t \in Threads \ {result.thread} : HeldAs(result.ctx, "NotCurrent", t)
    /\ current[result.thread] \in Handles \ {result.ctx}

\* The i32 v and the u32 x are the same number: no i32 is a u32 of 2^31 or more.
SameNumber(v, x) == x.hi = 0 /\ v = x.lo

\* C14: a Context::resize on the Windowed variant makes exactly one native
\* resize call, whose width and height are the numbers the caller gave and
\* whose offsets are 0, 0, and the drawable has that size when the call
\* returns; on the PBuffer and Surfaceless variants the call panics, returns no
\* error value and makes no native call.
C14_ResizeForwardsGiven ==
    result.op = "resize" =>
        IF variant = "Windowed"
        THEN /\ lastResize.outcome = "returned"
             /\ Len(calls) = 1
             /\ calls[1].fn = "WlEglSurface::resize"
             /\ SameNumber(calls[1].arg[1], lastResize.width)
             /\ SameNumber(calls[1].arg[2], lastResize.height)
             /\ calls[1].arg[3] = 0
             /\ calls[1].arg[4] = 0
             /\ surface = WlEglSurface(calls[1].arg[1], calls[1].arg[2], 0, 0)
        ELSE /\ lastResize.outcome = "panicked"
             /\ result.err = NoErr
             /\ calls = <<>>
             /\ surface = NoSurface

\* C15: on a display with extended attribute negotiation, the array handed to
\* CreateContext holds the debug attribute exactly when debug was requested,
\* the runtime version is at least 1.5 and the requested robustness policy is
\* not no-error, whatever extensions the display advertises.
C15_DebugUnlessNoErrorPolicy ==
    (ReachedCreateContext /\ NegotiationAvailable) =>
        (CONTEXT_OPENGL_DEBUG \in Keys(attrs)
           <=> (request.debug /\ AtLeastOneFive /\ request.robustness # "NoError"))

\* The pairs of an attribute array whose key is k, by position.
KeyAt(a, k) == { i \in 1..((Len(a) - 1) \div 2) : a[2 * i - 1] = k }

\* A policy that asks for robust access.
RobustPolicies == {"RobustLoseContextOnReset", "RobustNoResetNotification"}

\* C16: on a display with extended attribute negotiation, in the array handed
\* to CreateContext: not-robust adds no reset strategy, no no-error and no
\* flags attribute; each robust policy, accepted only with robustness support,
\* adds exactly one reset notification strategy attribute with its own value
\* and exactly one flags attribute whose value is the robust access bit alone;
\* no-error, accepted only with no-error support, adds no flags attribute; and
\* a flags attribute is present exactly when the policy is a robust one.
C16_RobustnessMapping ==
    (ReachedCreateContext /\ NegotiationAvailable) =>
        LET strategy == KeyAt(attrs, CONTEXT_OPENGL_RESET_NOTIFICATION_STRATEGY)
            flags == KeyAt(attrs, CONTEXT_FLAGS_KHR)
            noerr == KeyAt(attrs, CONTEXT_OPENGL_NO_ERROR_KHR)
            robust == request.robustness \in RobustPolicies
        IN  /\ request.robustness = "NotRobust" =>
                  strategy = {} /\ flags = {} /\ noerr = {}
            /\ robust =>
                  /\ AtLeastOneFive \/ "EGL_EXT_create_context_robustness" \in extensions
                  /\ Cardinality(strategy) = 1
                  /\ Cardinality(flags) = 1
                  /\ \A i \in flags : attrs[2 * i] = CONTEXT_OPENGL_ROBUST_ACCESS
            /\ request.robustness = "RobustLoseContextOnReset" =>
                  \A i \in strategy : attrs[2 * i] = LOSE_CONTEXT_ON_RESET
            /\ request.robustness = "RobustNoResetNotification" =>
                  \A i \in strategy : attrs[2 * i] = NO_RESET_NOTIFICATION
            /\ request.robustness = "NoError" =>
                  /\ "EGL_KHR_create_context_no_error" \in extensions
                  /\ flags = {} /\ strategy = {}
            /\ (flags # {}) <=> robust

\* A no-reset-notification request accepted below version 1.5 on the strength
\* of the robustness extension, with its flags attribute in the array.
C16_Witness ==
    /\ ReachedCreateContext
    /\ NegotiationAvailable
    /\ ~AtLeastOneFive
    /\ request.robustness = "RobustNoResetNotification"
    /\ KeyAt(attrs, CONTEXT_FLAGS_KHR) # {}

\* The request's API is one the display's version lets through the API match.
PassesApiCheck ==
    \/ request.api = "Gles"
    \/ request.api = "OpenGl" /\ (version[1] > 1 \/ (version[1] = 1 /\ version[2] > 3))

\* On a display without extended attribute negotiation the call went on to
\* the native layer: BindAPI was called, no NotSupported was raised by the
\* function itself, and the array CreateContext received, when BindAPI let it
\* be reached, is the terminator alone.
WentNativeWithTerminatorOnly ==
    /\ calls # <<>>
    /\ calls[1].fn = "BindAPI"
    /\ result.err \in {NoErr} \cup check_error
    /\ ReachedCreateContext => attrs = <<NONE>>

\* C17 as stated: below version 1.5 and without EGL_KHR_create_context, every
\* request that passes the API check goes on to the native calls with the
\* terminator as the whole attribute array, whatever version, robustness
\* policy and debug flag it asks for.
C17_Original ==
    (result.op = "create_context" /\ ~NegotiationAvailable /\ PassesApiCheck) =>
        WentNativeWithTerminatorOnly

\* C17: below version 1.5 and without EGL_KHR_create_context, every request
\* that passes the API check and names no shared context or an EGL one goes on
\* to the native calls with the terminator as the whole attribute array,
\* whatever version, robustness policy and debug flag it asks for.
C17_TerminatorOnly ==
    (/\ result.op = "create_context"
     /\ ~NegotiationAvailable
     /\ PassesApiCheck
     /\ request.shared.backend \in {"None", "Egl"}) =>
        WentNativeWithTerminatorOnly

\* A request for a version, the no-error policy and debug, on such a display
\* with no no-error extension, created a context from the terminator alone.
C17_Witness ==
    /\ ReachedCreateContext
    /\ ~NegotiationAvailable
    /\ request.version # <<>>
    /\ request.robustness = "NoError"
    /\ request.debug
    /\ "EGL_KHR_create_context_no_error" \notin extensions
    /\ attrs = <<NONE>>
    /\ result.err = NoErr

\* C18: a successful make_not_current on a PossiblyCurrentContext leaves the
\* calling thread with no current context, whichever context was current: every
\* other context wrapped as PossiblyCurrent on that thread keeps its wrapper
\* and is not current afterwards, so is_current on it answers false.
C18_UnbindClearsAnyContext ==
    [][ (result'.op = "make_not_current" /\ result'.err = NoErr) =>
          LET t == result'.thread
          IN  /\ current'[t] = NO_CONTEXT
              /\ \A b \in Handles \ {result'.ctx} :
                    HeldAs(b, "PossiblyCurrent", t) =>
                       /\ Wrapper("PossiblyCurrent", t) \in wrapper'[b]
                       /\ current'[t] # b
      ]_vars

\* A was unbound successfully on a thread that also holds B in a
\* PossiblyCurrentContext: B keeps its wrapper and the thread has no current
\* context and no bound surface.
C18_Witness ==
    /\ result.op = "make_not_current"
    /\ result.err = NoErr
    /\ current[result.thread] = NO_CONTEXT
    /\ \E b \in Handles \ {result.ctx} :
          /\ HeldAs(b, "PossiblyCurrent", result.thread)
          /\ drawS[result.thread] = NO_SURFACE

\* C19: when the native unbind of PossiblyCurrentContext::make_not_current
\* fails, the call returns an error and no wrapper, no wrapper holds the
\* record any more, the call's only other native call is one DestroyContext on
\* the handle, the only one ever made on it, and the current-context slot and
\* bound surfaces of every thread are what they were before the call.
C19_FailedUnbindIsTerminal ==
    [][ (result'.op = "make_not_current" /\ ~calls'[1].ok) =>
          LET h == result'.ctx
          IN  /\ result'.err # NoErr
              /\ result'.returned = "none"
              /\ wrapper'[h] = NoWrapper
              /\ calls' = <<Call("MakeCurrent", NO_CONTEXT, FALSE),
                            Call("DestroyContext", h, TRUE)>>
              /\ destroyed'[h] = 1
              /\ native' = native
      ]_vars

\* The unbind failed while the context was current: the handle has been
\* destroyed, no wrapper is left over it, and it is still in the thread's slot.
C19_Witness ==
    /\ result.op = "make_not_current"
    /\ NativeCallFailed
    /\ Discarded(result.ctx)
    /\ destroyed[result.ctx] = 1
    /\ current[result.thread] = result.ctx

\* The operations that call MakeCurrent.
MakeCurrentOps == {"NotCurrentContext::make_current",
                   "NotCurrentContext::make_current_draw_read",
                   "make_not_current"} \cup RebindOps

\* C20: discarding a wrapper makes one native call, DestroyContext on its
\* handle, and leaves every thread's current-context slot and bound surfaces
\* as they were; and a destroyed handle leaves a thread's slot only in a step
\* that returns from a successful bind or unbind made on that thread.
C20_DropDestroysOnly ==
    [][ /\ result'.op = "drop" =>
              /\ calls' = <<Call("DestroyContext", result'.ctx, TRUE)>>
              /\ native' = native
        /\ \A t \in Threads, h \in Handles :
              (current[t] = h /\ destroyed[h] > 0 /\ current'[t] # h) =>
                 /\ result'.thread = t
                 /\ result'.op \in MakeCurrentOps
                 /\ result'.err = NoErr
      ]_vars

\* A PossiblyCurrentContext was discarded while its context was current: the
\* destroyed handle is still the thread's current context.
C20_Witness ==
    /\ result.op = "drop"
    /\ destroyed[result.ctx] = 1
    /\ current[result.thread] = result.ctx
    /\ drawS[result.thread] # NO_SURFACE

====
